---- MODULE Spec2Model ----
(***************************************************************************)
(* The catalog application of django_local_library: the five models of     *)
(* catalog/models.py as an entity store, and the views of catalog/views.py *)
(* as actions over it.  A request is an action's parameters; each          *)
(* specification below draws its requests from its own bounded sets.       *)
(***************************************************************************)
EXTENDS Integers, Sequences, FiniteSets, TLC

VARIABLES
    genres,        \* Genre table:        id -> [name]
    languages,     \* Language table:     id -> [name]
    authors,       \* Author table:       id -> [first_name, last_name]
    books,         \* Book table:         id -> [title, author, language, genre]
    instances,     \* BookInstance table: id -> [book, imprint, due_back, borrower, status]
    session,       \* session store: session key -> the 'num_visits' entry (NULL: no entry)
    today,         \* the value date.today() returns
    nulls_first,   \* whether the database sorts NULL first in a plain ascending ORDER BY
    inflight,      \* renewals between their read and their save: request -> the object read
    response       \* what the last request returned

store == <<genres, languages, authors, books, instances>>
vars == <<genres, languages, authors, books, instances, session, today, nulls_first,
          inflight, response>>

-----------------------------------------------------------------------------
(* Bounds of the model. *)
MaxGenre == 1
MaxLanguage == 1
MaxAuthor == 1
MaxBook == 1
MaxInstance == 1
MaxCopy == 2
MaxListed == 2
MaxVisits == 2
MaxToday == 2


(* A nullable column holds NULL or <<v>>. *)
NULL == <<>>
Some(v) == <<v>>
Val(o) == o[1]

-----------------------------------------------------------------------------
(* Callers: request.user and the permissions it holds. *)
Users == {"u1", "u2"}

GenrePerms == {"catalog.can_create_genre", "catalog.can_update_genre",
               "catalog.can_delete_genre"}
LanguagePerms == {"catalog.can_create_language", "catalog.can_update_language",
                  "catalog.can_delete_language"}
BookPerms == {"catalog.can_create_book", "catalog.can_update_book",
              "catalog.can_delete_book"}
BookInstancePerms == {"catalog.can_mark_returned", "catalog.can_create_bookinstance",
                      "catalog.can_update_bookinstance", "catalog.can_delete_bookinstance"}
AuthorPerms == {"catalog.can_create_author", "catalog.can_update_author",
                "catalog.can_delete_author"}
Perms == GenrePerms \cup LanguagePerms \cup BookPerms \cup BookInstancePerms \cup AuthorPerms

Anonymous == [auth |-> FALSE, user |-> "anonymous", perms |-> {}]
Librarian(u) == [auth |-> TRUE, user |-> u, perms |-> Perms]
Lacking(u, p) == [auth |-> TRUE, user |-> u, perms |-> Perms \ {p}]
Member(u) == [auth |-> TRUE, user |-> u, perms |-> {}]

has_perm(caller, perm) == caller.auth /\ perm \in caller.perms

Methods == {"GET", "POST"}

(* What a refused request returns.  The class-based views raise 403 for a  *)
(* logged-in caller and redirect an anonymous one to the login page; the   *)
(* function decorators redirect to the login page in both cases.           *)
handle_no_permission(caller) ==
    IF caller.auth THEN [kind |-> "Forbidden"] ELSE [kind |-> "LoginRedirect"]
redirect_to_login == [kind |-> "LoginRedirect"]

-----------------------------------------------------------------------------
(* Text: a string is its sequence of characters. *)
UpperCase == <<"A","B","C","D","E","F","G","H","I","J","K","L","M",
               "N","O","P","Q","R","S","T","U","V","W","X","Y","Z">>
LowerCase == <<"a","b","c","d","e","f","g","h","i","j","k","l","m",
               "n","o","p","q","r","s","t","u","v","w","x","y","z">>

lower(c) ==
    IF \E i \in DOMAIN UpperCase : UpperCase[i] = c
    THEN LowerCase[CHOOSE i \in DOMAIN UpperCase : UpperCase[i] = c]
    ELSE c

(* The lookup <field>__contains = needle: the letters as they are. *)
contains(hay, needle) ==
    \E i \in 0..(Len(hay) - Len(needle)) :
        \A k \in 1..Len(needle) : hay[i + k] = needle[k]

(* The lookup <field>__icontains = needle. *)
icontains(hay, needle) ==
    \E i \in 0..(Len(hay) - Len(needle)) :
        \A k \in 1..Len(needle) : lower(hay[i + k]) = lower(needle[k])

fantasy == <<"f","a","n","t","a","s","y">>
thrones == <<"t","h","r","o","n","e","s">>

(* Names and titles the requests of the specifications use. *)
EpicFantasy == <<"E","p","i","c"," ","F","a","n","t","a","s","y">>
FANTASY == <<"F","A","N","T","A","S","Y">>
Fantasia == <<"F","a","n","t","a","s","i","a">>
GameOfThrones == <<"G","a","m","e"," ","o","f"," ","T","h","r","o","n","e","s">>
Throne == <<"T","h","r","o","n","e">>
English == <<"E","n","g","l","i","s","h">>
Imprint1 == <<"1","s","t">>
Jane == <<"J","a","n","e">>
Austen == <<"A","u","s","t","e","n">>

-----------------------------------------------------------------------------
(* Table operations. *)
Insert(table, id, row) == [i \in DOMAIN table \cup {id} |-> IF i = id THEN row ELSE table[i]]
Remove(table, id) == [i \in DOMAIN table \ {id} |-> table[i]]

(* The 'choices' of BookInstance.status. *)
LOAN_STATUS == {"m", "o", "a", "r"}

-----------------------------------------------------------------------------
(* What every view does with the variables it does not touch. *)
Respond(r) ==
    /\ response' = r
    /\ UNCHANGED <<store, session, today, nulls_first, inflight>>

Refuse(caller) == Respond(handle_no_permission(caller))

(* Foreign keys declared on_delete=SET_NULL, and the rows of the           *)
(* many-to-many table Book.genre, when the row they point to is deleted.   *)
(* on_delete=CASCADE in place of SET_NULL. *)
Book_author_on_delete_cascade(bks, a) ==
    [b \in {x \in DOMAIN bks : bks[x].author /= Some(a)} |-> bks[b]]

Book_author_on_delete(bks, a) ==
    [b \in DOMAIN bks |->
        IF bks[b].author = Some(a) THEN [bks[b] EXCEPT !.author = NULL] ELSE bks[b]]

Book_language_on_delete(bks, l) ==
    [b \in DOMAIN bks |->
        IF bks[b].language = Some(l) THEN [bks[b] EXCEPT !.language = NULL] ELSE bks[b]]

Book_genre_on_delete(bks, g) ==
    [b \in DOMAIN bks |-> [bks[b] EXCEPT !.genre = @ \ {g}]]

BookInstance_book_on_delete(insts, b) ==
    [i \in DOMAIN insts |->
        IF insts[i].book = Some(b) THEN [insts[i] EXCEPT !.book = NULL] ELSE insts[i]]

(* Model forms (fields = '__all__'): a CharField is required and at most   *)
(* max_length long; a ForeignKey without blank=True is required and must   *)
(* name an existing row; a ManyToManyField without blank=True needs at     *)
(* least one existing row; a field with blank=True may be left empty.      *)
CharField_valid(text, max_length) == text /= <<>> /\ Len(text) <= max_length

GenreForm_is_valid(data) == CharField_valid(data.name, 200)
LanguageForm_is_valid(data) == CharField_valid(data.name, 200)
AuthorForm_is_valid(data) ==
    CharField_valid(data.first_name, 100) /\ CharField_valid(data.last_name, 100)
BookForm_is_valid(data) ==
    /\ CharField_valid(data.title, 200)
    /\ data.author /= NULL /\ Val(data.author) \in DOMAIN authors
    /\ data.language /= NULL /\ Val(data.language) \in DOMAIN languages
    /\ data.genre /= {} /\ data.genre \subseteq DOMAIN genres
BookInstanceForm_is_valid(data) ==
    /\ data.book /= NULL /\ Val(data.book) \in DOMAIN books
    /\ CharField_valid(data.imprint, 200)
    /\ data.borrower = NULL \/ Val(data.borrower) \in Users
    /\ data.status \in LOAN_STATUS \cup {""}

-----------------------------------------------------------------------------
(* permission_required of each editing view. *)
AuthorCreate_permission_required == "catalog.can_create_author"
AuthorUpdate_permission_required == "catalog.can_update_author"
AuthorDelete_permission_required == "catalog.can_delete_author"
BookCreate_permission_required == "catalog.can_create_book"
BookUpdate_permission_required == "catalog.can_update_book"
(* BookDelete asking for the permission of BookUpdate. *)
BookDelete_permission_of_update == "catalog.can_update_book"
BookDelete_permission_required == "catalog.can_delete_book"
BookInstanceCreate_permission_required == "catalog.can_create_bookinstance"
BookInstanceUpdate_permission_required == "catalog.can_update_bookinstance"
BookInstanceDelete_permission_required == "catalog.can_delete_bookinstance"
GenreCreate_permission_required == "catalog.can_create_genre"
GenreUpdate_permission_required == "catalog.can_update_genre"
GenreDelete_permission_required == "catalog.can_delete_genre"
LanguageCreate_permission_required == "catalog.can_create_language"
LanguageUpdate_permission_required == "catalog.can_update_language"
LanguageDelete_permission_required == "catalog.can_delete_language"
BookinstancesAllListView_permission_required == "catalog.can_mark_returned"
renew_book_librarian_permission_required == "catalog.can_mark_returned"

-----------------------------------------------------------------------------
(* The generic editing views.  PermissionRequiredMixin.dispatch checks the *)
(* permission first; an update or delete then looks its object up (404);   *)
(* GET renders the form or the confirmation page, POST validates and       *)
(* saves, or deletes.  new_id is the primary key the database (or uuid4,   *)
(* for a BookInstance) generates for a new row: one no row has.            *)

AuthorCreate(caller, method, data, new_id) ==
    IF ~has_perm(caller, AuthorCreate_permission_required) THEN Refuse(caller)
    ELSE IF method = "GET" THEN Respond([kind |-> "Form"])
    ELSE IF ~AuthorForm_is_valid(data) THEN Respond([kind |-> "FormInvalid"])
    ELSE
        /\ new_id \notin DOMAIN authors
        /\ authors' = Insert(authors, new_id, data)
        /\ response' = [kind |-> "Created"]
        /\ UNCHANGED <<genres, languages, books, instances, session, today, nulls_first, inflight>>

AuthorUpdate(caller, method, pk, data) ==
    IF ~has_perm(caller, AuthorUpdate_permission_required) THEN Refuse(caller)
    ELSE IF pk \notin DOMAIN authors THEN Respond([kind |-> "NotFound"])
    ELSE IF method = "GET" THEN Respond([kind |-> "Form"])
    ELSE IF ~AuthorForm_is_valid(data) THEN Respond([kind |-> "FormInvalid"])
    ELSE
        /\ authors' = [authors EXCEPT ![pk] = data]
        /\ response' = [kind |-> "Updated"]
        /\ UNCHANGED <<genres, languages, books, instances, session, today, nulls_first, inflight>>

AuthorDelete(caller, method, pk) ==
    IF ~has_perm(caller, AuthorDelete_permission_required) THEN Refuse(caller)
    ELSE IF pk \notin DOMAIN authors THEN Respond([kind |-> "NotFound"])
    ELSE IF method = "GET" THEN Respond([kind |-> "Form"])
    ELSE
        /\ books' = Book_author_on_delete(books, pk)
        /\ authors' = Remove(authors, pk)
        /\ response' = [kind |-> "Deleted"]
        /\ UNCHANGED <<genres, languages, instances, session, today, nulls_first, inflight>>

BookCreate(caller, method, data, new_id) ==
    IF ~has_perm(caller, BookCreate_permission_required) THEN Refuse(caller)
    ELSE IF method = "GET" THEN Respond([kind |-> "Form"])
    ELSE IF ~BookForm_is_valid(data) THEN Respond([kind |-> "FormInvalid"])
    ELSE
        /\ new_id \notin DOMAIN books
        /\ books' = Insert(books, new_id, data)
        /\ response' = [kind |-> "Created"]
        /\ UNCHANGED <<genres, languages, authors, instances, session, today, nulls_first, inflight>>

BookUpdate(caller, method, pk, data) ==
    IF ~has_perm(caller, BookUpdate_permission_required) THEN Refuse(caller)
    ELSE IF pk \notin DOMAIN books THEN Respond([kind |-> "NotFound"])
    ELSE IF method = "GET" THEN Respond([kind |-> "Form"])
    ELSE IF ~BookForm_is_valid(data) THEN Respond([kind |-> "FormInvalid"])
    ELSE
        /\ books' = [books EXCEPT ![pk] = data]
        /\ response' = [kind |-> "Updated"]
        /\ UNCHANGED <<genres, languages, authors, instances, session, today, nulls_first, inflight>>

BookDelete(caller, method, pk) ==
    IF ~has_perm(caller, BookDelete_permission_required) THEN Refuse(caller)
    ELSE IF pk \notin DOMAIN books THEN Respond([kind |-> "NotFound"])
    ELSE IF method = "GET" THEN Respond([kind |-> "Form"])
    ELSE
        /\ instances' = BookInstance_book_on_delete(instances, pk)
        /\ books' = Remove(books, pk)
        /\ response' = [kind |-> "Deleted"]
        /\ UNCHANGED <<genres, languages, authors, session, today, nulls_first, inflight>>

BookInstanceCreate(caller, method, data, new_id) ==
    IF ~has_perm(caller, BookInstanceCreate_permission_required) THEN Refuse(caller)
    ELSE IF method = "GET" THEN Respond([kind |-> "Form"])
    ELSE IF ~BookInstanceForm_is_valid(data) THEN Respond([kind |-> "FormInvalid"])
    ELSE
        /\ new_id \notin DOMAIN instances
        /\ instances' = Insert(instances, new_id, data)
        /\ response' = [kind |-> "Created"]
        /\ UNCHANGED <<genres, languages, authors, books, session, today, nulls_first, inflight>>

BookInstanceUpdate(caller, method, pk, data) ==
    IF ~has_perm(caller, BookInstanceUpdate_permission_required) THEN Refuse(caller)
    ELSE IF pk \notin DOMAIN instances THEN Respond([kind |-> "NotFound"])
    ELSE IF method = "GET" THEN Respond([kind |-> "Form"])
    ELSE IF ~BookInstanceForm_is_valid(data) THEN Respond([kind |-> "FormInvalid"])
    ELSE
        /\ instances' = [instances EXCEPT ![pk] = data]
        /\ response' = [kind |-> "Updated"]
        /\ UNCHANGED <<genres, languages, authors, books, session, today, nulls_first, inflight>>

BookInstanceDelete(caller, method, pk) ==
    IF ~has_perm(caller, BookInstanceDelete_permission_required) THEN Refuse(caller)
    ELSE IF pk \notin DOMAIN instances THEN Respond([kind |-> "NotFound"])
    ELSE IF method = "GET" THEN Respond([kind |-> "Form"])
    ELSE
        /\ instances' = Remove(instances, pk)
        /\ response' = [kind |-> "Deleted"]
        /\ UNCHANGED <<genres, languages, authors, books, session, today, nulls_first, inflight>>

GenreCreate(caller, method, data, new_id) ==
    IF ~has_perm(caller, GenreCreate_permission_required) THEN Refuse(caller)
    ELSE IF method = "GET" THEN Respond([kind |-> "Form"])
    ELSE IF ~GenreForm_is_valid(data) THEN Respond([kind |-> "FormInvalid"])
    ELSE
        /\ new_id \notin DOMAIN genres
        /\ genres' = Insert(genres, new_id, data)
        /\ response' = [kind |-> "Created"]
        /\ UNCHANGED <<languages, authors, books, instances, session, today, nulls_first, inflight>>

GenreUpdate(caller, method, pk, data) ==
    IF ~has_perm(caller, GenreUpdate_permission_required) THEN Refuse(caller)
    ELSE IF pk \notin DOMAIN genres THEN Respond([kind |-> "NotFound"])
    ELSE IF method = "GET" THEN Respond([kind |-> "Form"])
    ELSE IF ~GenreForm_is_valid(data) THEN Respond([kind |-> "FormInvalid"])
    ELSE
        /\ genres' = [genres EXCEPT ![pk] = data]
        /\ response' = [kind |-> "Updated"]
        /\ UNCHANGED <<languages, authors, books, instances, session, today, nulls_first, inflight>>

GenreDelete(caller, method, pk) ==
    IF ~has_perm(caller, GenreDelete_permission_required) THEN Refuse(caller)
    ELSE IF pk \notin DOMAIN genres THEN Respond([kind |-> "NotFound"])
    ELSE IF method = "GET" THEN Respond([kind |-> "Form"])
    ELSE
        /\ books' = Book_genre_on_delete(books, pk)
        /\ genres' = Remove(genres, pk)
        /\ response' = [kind |-> "Deleted"]
        /\ UNCHANGED <<languages, authors, instances, session, today, nulls_first, inflight>>

LanguageCreate(caller, method, data, new_id) ==
    IF ~has_perm(caller, LanguageCreate_permission_required) THEN Refuse(caller)
    ELSE IF method = "GET" THEN Respond([kind |-> "Form"])
    ELSE IF ~LanguageForm_is_valid(data) THEN Respond([kind |-> "FormInvalid"])
    ELSE
        /\ new_id \notin DOMAIN languages
        /\ languages' = Insert(languages, new_id, data)
        /\ response' = [kind |-> "Created"]
        /\ UNCHANGED <<genres, authors, books, instances, session, today, nulls_first, inflight>>

LanguageUpdate(caller, method, pk, data) ==
    IF ~has_perm(caller, LanguageUpdate_permission_required) THEN Refuse(caller)
    ELSE IF pk \notin DOMAIN languages THEN Respond([kind |-> "NotFound"])
    ELSE IF method = "GET" THEN Respond([kind |-> "Form"])
    ELSE IF ~LanguageForm_is_valid(data) THEN Respond([kind |-> "FormInvalid"])
    ELSE
        /\ languages' = [languages EXCEPT ![pk] = data]
        /\ response' = [kind |-> "Updated"]
        /\ UNCHANGED <<genres, authors, books, instances, session, today, nulls_first, inflight>>

LanguageDelete(caller, method, pk) ==
    IF ~has_perm(caller, LanguageDelete_permission_required) THEN Refuse(caller)
    ELSE IF pk \notin DOMAIN languages THEN Respond([kind |-> "NotFound"])
    ELSE IF method = "GET" THEN Respond([kind |-> "Form"])
    ELSE
        /\ books' = Book_language_on_delete(books, pk)
        /\ languages' = Remove(languages, pk)
        /\ response' = [kind |-> "Deleted"]
        /\ UNCHANGED <<genres, authors, instances, session, today, nulls_first, inflight>>

-----------------------------------------------------------------------------
(* BookInstance.is_overdue: a property, computed from due_back and         *)
(* date.today() each time it is read.                                      *)
(* Overdue from the due day on: >= in place of >. *)
is_overdue_on_due_day(book_inst, date_today) ==
    IF book_inst.due_back /= NULL /\ date_today >= Val(book_inst.due_back)
    THEN TRUE
    ELSE FALSE

is_overdue(book_inst, date_today) ==
    IF book_inst.due_back /= NULL /\ date_today > Val(book_inst.due_back)
    THEN TRUE
    ELSE FALSE

(* A template reads the property of the instance pk. *)
BookInstance_is_overdue(pk) ==
    /\ pk \in DOMAIN instances
    /\ Respond([kind |-> "is_overdue", pk |-> pk, value |-> is_overdue(instances[pk], today)])

(* Midnight: date.today() moves on. *)
Tick ==
    /\ today < MaxToday
    /\ today' = today + 1
    /\ UNCHANGED <<store, session, nulls_first, inflight, response>>

-----------------------------------------------------------------------------
(* Ordering by due_back.  A queryset is one of the sequences the database  *)
(* may return: rows with equal keys come in any order.  With               *)
(* nulls_last=True the NULLs follow the dates; a plain ascending order     *)
(* puts them where the database does.                                      *)
Orderings(S) ==
    {rows \in [1..Cardinality(S) -> S] : \A x \in S : \E i \in DOMAIN rows : rows[i] = x}

due_back_precedes(a, b, nulls_last) ==
    IF nulls_last
    THEN b = NULL \/ (a /= NULL /\ Val(a) <= Val(b))
    ELSE a = NULL \/ (b /= NULL /\ Val(a) <= Val(b))

(* An ordering that ignores nulls_last. *)
order_by_due_back_nulls_first(ids, nulls_last) ==
    {rows \in Orderings(ids) :
        \A i, j \in DOMAIN rows :
            i < j => due_back_precedes(instances[rows[i]].due_back,
                                       instances[rows[j]].due_back, FALSE)}

order_by_due_back(ids, nulls_last) ==
    {rows \in Orderings(ids) :
        \A i, j \in DOMAIN rows :
            i < j => due_back_precedes(instances[rows[i]].due_back,
                                       instances[rows[j]].due_back, nulls_last)}

(* Meta.ordering = [F('due_back').asc(nulls_last=True)] *)
BookInstance_Meta_ordering(ids) == order_by_due_back(ids, TRUE)

(* BookInstance.objects.all(), as the related manager and the admin list it. *)
BookInstance_objects_all ==
    \E rows \in BookInstance_Meta_ordering(DOMAIN instances) :
        Respond([kind |-> "DefaultList", rows |-> rows])

LoanedBooksByUserListView_get_queryset(user) ==
    order_by_due_back({i \in DOMAIN instances :
                          instances[i].borrower = Some(user) /\ instances[i].status = "o"},
                      ~nulls_first)

LoanedBooksByUserListView(caller) ==
    IF ~caller.auth THEN Respond(handle_no_permission(caller))
    ELSE \E rows \in LoanedBooksByUserListView_get_queryset(caller.user) :
        Respond([kind |-> "MyList", user |-> caller.user, rows |-> rows])

BookinstancesAllListView_get_queryset == order_by_due_back(DOMAIN instances, TRUE)

BookinstancesAllListView(caller) ==
    IF ~has_perm(caller, BookinstancesAllListView_permission_required) THEN Refuse(caller)
    ELSE \E rows \in BookinstancesAllListView_get_queryset :
        Respond([kind |-> "AllList", rows |-> rows])

-----------------------------------------------------------------------------
(* The home page. *)
num_books == Cardinality(DOMAIN books)
num_instances == Cardinality(DOMAIN instances)
num_instances_available == Cardinality({i \in DOMAIN instances : instances[i].status = "a"})
num_authors == Cardinality(DOMAIN authors)
num_fantasy_genres == Cardinality({g \in DOMAIN genres : icontains(genres[g].name, fantasy)})
num_thrones_books == Cardinality({b \in DOMAIN books : icontains(books[b].title, thrones)})

(* request.session.get('num_visits', 1) *)
session_get_num_visits_from_1(key) == IF session[key] = NULL THEN 1 ELSE Val(session[key])

(* request.session.get('num_visits', 0) *)
session_get_num_visits(key) == IF session[key] = NULL THEN 0 ELSE Val(session[key])

index(caller, key) ==
    IF ~caller.auth THEN Respond(redirect_to_login)
    ELSE LET num_visits == session_get_num_visits(key) IN
        /\ num_visits < MaxVisits
        /\ session' = [session EXCEPT ![key] = Some(num_visits + 1)]
        /\ response' = [kind |-> "index", key |-> key,
                        num_books |-> num_books,
                        num_instances |-> num_instances,
                        num_instances_available |-> num_instances_available,
                        num_authors |-> num_authors,
                        num_fantasy_genres |-> num_fantasy_genres,
                        num_thrones_books |-> num_thrones_books,
                        num_visits |-> num_visits]
        /\ UNCHANGED <<store, today, nulls_first, inflight>>

-----------------------------------------------------------------------------
(* Renewal. *)

(* RenewBookForm (catalog/forms.py): the date is required, not in the past *)
(* and at most 4 weeks ahead.                                              *)
RenewBookForm_is_valid(data, date_today) ==
    /\ data /= NULL
    /\ Val(data) >= date_today
    /\ Val(data) <= date_today + 4 * 7

(* The save without the check of the form. *)
renew_saves_unvalidated(method, form_is_valid) == method = "POST"

(* if request.method == 'POST': ... if form.is_valid(): *)
renew_saves(method, form_is_valid) == method = "POST" /\ form_is_valid

(* A renewal that also marks the copy as on loan. *)
renew_assign_on_loan(book_inst, renewal_date) ==
    [book_inst EXCEPT !.due_back = renewal_date, !.status = "o"]

(* book_inst.due_back = form.cleaned_data['renewal_date'] *)
renew_assign(book_inst, renewal_date) == [book_inst EXCEPT !.due_back = renewal_date]

(* Model.save() with no update_fields: every column of the row is written  *)
(* from the object in memory (and the row is inserted when it is gone).    *)
Model_save(table, pk, obj) == Insert(table, pk, obj)

(* The page with the form: the bound form and its errors after a POST,     *)
(* else a form that proposes today + 3 weeks.                              *)
renew_render(method, pk, data) ==
    IF method = "POST"
    THEN [kind |-> "RenewInvalid", pk |-> pk, renewal_date |-> data]
    ELSE [kind |-> "RenewForm", pk |-> pk, renewal_date |-> Some(today + 3 * 7)]

renew_book_librarian(caller, method, pk, data) ==
    IF ~has_perm(caller, renew_book_librarian_permission_required)
    THEN Respond(redirect_to_login)
    ELSE IF pk \notin DOMAIN instances THEN Respond([kind |-> "NotFound"])
    ELSE IF renew_saves(method, RenewBookForm_is_valid(data, today))
    THEN
        /\ instances' = Model_save(instances, pk, renew_assign(instances[pk], data))
        /\ response' = [kind |-> "Renewed", pk |-> pk]
        /\ UNCHANGED <<genres, languages, authors, books, session, today, nulls_first, inflight>>
    ELSE Respond(renew_render(method, pk, data))

(* The same view as the two database accesses it makes, for requests that  *)
(* are served at the same time: get_object_or_404, then save().            *)
renew_get_object(r, caller, pk) ==
    /\ inflight[r] = NULL
    /\ IF ~has_perm(caller, renew_book_librarian_permission_required)
       THEN Respond(redirect_to_login)
       ELSE IF pk \notin DOMAIN instances THEN Respond([kind |-> "NotFound"])
       ELSE
           /\ inflight' = [inflight EXCEPT ![r] = Some([pk |-> pk, book_inst |-> instances[pk]])]
           /\ UNCHANGED <<store, session, today, nulls_first, response>>

renew_process(r, method, data) ==
    /\ inflight[r] /= NULL
    /\ inflight' = [inflight EXCEPT ![r] = NULL]
    /\ LET pk == Val(inflight[r]).pk
           book_inst == Val(inflight[r]).book_inst
       IN  IF renew_saves(method, RenewBookForm_is_valid(data, today))
           THEN
               /\ instances' = Model_save(instances, pk, renew_assign(book_inst, data))
               /\ response' = [kind |-> "Renewed", pk |-> pk]
               /\ UNCHANGED <<genres, languages, authors, books, session, today, nulls_first>>
           ELSE
               /\ response' = renew_render(method, pk, data)
               /\ UNCHANGED <<store, session, today, nulls_first>>

-----------------------------------------------------------------------------
(* The requests the specifications draw from. *)
SessionKeys == {"s1", "s2"}
Opt(S) == {NULL} \cup {Some(x) : x \in S}

GenreIds == 1..MaxGenre
LanguageIds == 1..MaxLanguage
AuthorIds == 1..MaxAuthor
BookIds == 1..MaxBook
InstanceIds == 1..MaxInstance
CopyIds == 1..MaxCopy
ListedIds == 1..MaxListed

EmptyTable == [i \in {} |-> NULL]
NoSession == [k \in SessionKeys |-> NULL]
RequestIds == {"r1", "r2"}
NoRequest == [r \in RequestIds |-> NULL]

(* The callers of a view that checks the permission p: one with every     *)
(* permission, one with every permission but p, one with none, and one not *)
(* logged in.                                                              *)
NotHolding(p) == {Lacking("u1", p), Member("u1"), Anonymous}
AllCallers(p) == {Librarian("u1")} \cup NotHolding(p)
TwoCallers(p) == {Librarian("u1"), Lacking("u1", p)}

GenreData == [name : {EpicFantasy, FANTASY, Fantasia}]
LanguageData == [name : {English}]
AuthorData == [first_name : {Jane}, last_name : {Austen, <<>>}]
BookData == [title : {GameOfThrones, Throne}, author : Opt(AuthorIds),
             language : Opt(LanguageIds), genre : SUBSET GenreIds]
InstanceData == [book : Opt(BookIds), imprint : {Imprint1}, due_back : {NULL},
                 borrower : {NULL}, status : {"a", "m"}]

-----------------------------------------------------------------------------
(* The catalog from an empty database: every editing view, the renewal and *)
(* the home page.                                                          *)
Init ==
    /\ genres = EmptyTable /\ languages = EmptyTable /\ authors = EmptyTable
    /\ books = EmptyTable /\ instances = EmptyTable
    /\ session = NoSession
    /\ today = 1
    /\ nulls_first = FALSE
    /\ inflight = NoRequest
    /\ response = [kind |-> "None"]

RenewData == {Some(today), Some(today + 29)}

Next ==
    \/ \E caller \in TwoCallers("catalog.can_create_author"), method \in Methods,
          data \in AuthorData, id \in AuthorIds : AuthorCreate(caller, method, data, id)
    \/ \E caller \in TwoCallers("catalog.can_update_author"), method \in Methods,
          data \in AuthorData, pk \in AuthorIds : AuthorUpdate(caller, method, pk, data)
    \/ \E caller \in TwoCallers("catalog.can_delete_author"), method \in Methods,
          pk \in AuthorIds : AuthorDelete(caller, method, pk)
    \/ \E caller \in TwoCallers("catalog.can_create_book"), method \in Methods,
          data \in BookData, id \in BookIds : BookCreate(caller, method, data, id)
    \/ \E caller \in TwoCallers("catalog.can_update_book"), method \in Methods,
          data \in BookData, pk \in BookIds : BookUpdate(caller, method, pk, data)
    \/ \E caller \in TwoCallers("catalog.can_delete_book"), method \in Methods,
          pk \in BookIds : BookDelete(caller, method, pk)
    \/ \E caller \in TwoCallers("catalog.can_create_bookinstance"), method \in Methods,
          data \in InstanceData, id \in InstanceIds : BookInstanceCreate(caller, method, data, id)
    \/ \E caller \in TwoCallers("catalog.can_update_bookinstance"), method \in Methods,
          data \in InstanceData, pk \in InstanceIds : BookInstanceUpdate(caller, method, pk, data)
    \/ \E caller \in TwoCallers("catalog.can_delete_bookinstance"), method \in Methods,
          pk \in InstanceIds : BookInstanceDelete(caller, method, pk)
    \/ \E caller \in TwoCallers("catalog.can_create_genre"), method \in Methods,
          data \in GenreData, id \in GenreIds : GenreCreate(caller, method, data, id)
    \/ \E caller \in TwoCallers("catalog.can_update_genre"), method \in Methods,
          data \in GenreData, pk \in GenreIds : GenreUpdate(caller, method, pk, data)
    \/ \E caller \in TwoCallers("catalog.can_delete_genre"), method \in Methods,
          pk \in GenreIds : GenreDelete(caller, method, pk)
    \/ \E caller \in TwoCallers("catalog.can_create_language"), method \in Methods,
          data \in LanguageData, id \in LanguageIds : LanguageCreate(caller, method, data, id)
    \/ \E caller \in TwoCallers("catalog.can_update_language"), method \in Methods,
          data \in LanguageData, pk \in LanguageIds : LanguageUpdate(caller, method, pk, data)
    \/ \E caller \in TwoCallers("catalog.can_delete_language"), method \in Methods,
          pk \in LanguageIds : LanguageDelete(caller, method, pk)
    \/ \E caller \in TwoCallers("catalog.can_mark_returned"), method \in Methods,
          pk \in InstanceIds, data \in RenewData : renew_book_librarian(caller, method, pk, data)
    \/ \E caller \in {Member("u1"), Anonymous}, key \in SessionKeys : index(caller, key)

Spec == Init /\ [][Next]_vars

(* C4: deletes never cascade and never leave a dangling reference: in      *)
(* every state each non-null Book.author, Book.language, BookInstance.book *)
(* and each member of Book.genre is the id of a row on record; and a step  *)
(* that deletes an Author or a Language keeps every Book, with that author *)
(* or language now null, one that deletes a Genre keeps every Book, with   *)
(* that genre out of its genre set, and one that deletes a Book keeps      *)
(* every BookInstance, with book now null.                                 *)
ReferencesResolve ==
    /\ \A b \in DOMAIN books :
        /\ books[b].author = NULL \/ Val(books[b].author) \in DOMAIN authors
        /\ books[b].language = NULL \/ Val(books[b].language) \in DOMAIN languages
        /\ books[b].genre \subseteq DOMAIN genres
    /\ \A i \in DOMAIN instances :
        instances[i].book = NULL \/ Val(instances[i].book) \in DOMAIN books

DeleteDetaches ==
    /\ \A a \in DOMAIN authors \ DOMAIN authors' :
        /\ DOMAIN books' = DOMAIN books
        /\ \A b \in DOMAIN books :
            books'[b].author = IF books[b].author = Some(a) THEN NULL ELSE books[b].author
    /\ \A l \in DOMAIN languages \ DOMAIN languages' :
        /\ DOMAIN books' = DOMAIN books
        /\ \A b \in DOMAIN books :
            books'[b].language = IF books[b].language = Some(l) THEN NULL ELSE books[b].language
    /\ \A g \in DOMAIN genres \ DOMAIN genres' :
        /\ DOMAIN books' = DOMAIN books
        /\ \A b \in DOMAIN books : books'[b].genre = books[b].genre \ {g}
    /\ \A k \in DOMAIN books \ DOMAIN books' :
        /\ DOMAIN instances' = DOMAIN instances
        /\ \A i \in DOMAIN instances :
            instances'[i].book = IF instances[i].book = Some(k) THEN NULL ELSE instances[i].book

DeletesDetach == []ReferencesResolve /\ [][DeleteDetaches]_vars

(* A book whose author, language and genre were deleted, and a copy whose  *)
(* book was deleted, are on record.                                        *)
DeletesDetach_Witness ==
    /\ \E b \in DOMAIN books :
        books[b].author = NULL /\ books[b].language = NULL /\ books[b].genre = {}
    /\ \E i \in DOMAIN instances : instances[i].book = NULL

(* C5: the visit counter of a session starts at 0; a home-page view by a   *)
(* logged-in caller returns the value stored before it and stores that     *)
(* value plus 1, and leaves every other session's counter alone; no other  *)
(* step changes a counter.                                                 *)
StoredVisits(entry) == IF entry = NULL THEN 0 ELSE entry[1]

VisitStep ==
    IF response'.kind = "index"
    THEN \A k \in SessionKeys :
        IF k = response'.key
        THEN /\ response'.num_visits = StoredVisits(session[k])
             /\ StoredVisits(session'[k]) = StoredVisits(session[k]) + 1
        ELSE session'[k] = session[k]
    ELSE session' = session

VisitsCounted ==
    /\ \A k \in SessionKeys : StoredVisits(session[k]) = 0
    /\ [][VisitStep]_vars

(* The second home-page view of session s1 reported 1 and left 2, while s2 *)
(* has made one view.                                                      *)
VisitsCounted_Witness ==
    /\ response.kind = "index" /\ response.key = "s1" /\ response.num_visits = 1
    /\ session["s1"] = Some(2)
    /\ session["s2"] = Some(1)

(* C8: the home summary returns the counts of the tables as they are when  *)
(* it is called: the Books, the BookInstances, the BookInstances with      *)
(* status 'a', the Authors, the Genres whose name contains "fantasy" and   *)
(* the Books whose title contains "thrones", in any case of the letters;   *)
(* and computing it changes no row.                                        *)
NamesWithFantasy == {EpicFantasy, FANTASY}
TitlesWithThrones == {GameOfThrones}

SummaryCounts ==
    response.kind = "index" =>
        /\ response.num_books = Cardinality(DOMAIN books)
        /\ response.num_instances = Cardinality(DOMAIN instances)
        /\ response.num_instances_available =
               Cardinality({i \in DOMAIN instances : instances[i].status = "a"})
        /\ response.num_authors = Cardinality(DOMAIN authors)
        /\ response.num_fantasy_genres =
               Cardinality({g \in DOMAIN genres : genres[g].name \in NamesWithFantasy})
        /\ response.num_thrones_books =
               Cardinality({b \in DOMAIN books : books[b].title \in TitlesWithThrones})

SummaryCurrent == []SummaryCounts /\ [][response'.kind = "index" => store' = store]_vars

(* A summary taken after creates, an update and a delete, with a fantasy   *)
(* genre, a thrones book and an available copy to count.                   *)
SummaryCurrent_Witness ==
    /\ response.kind = "index"
    /\ response.num_fantasy_genres = 1 /\ response.num_thrones_books = 1
    /\ response.num_instances_available = 1 /\ response.num_authors = 0
    /\ \E g \in DOMAIN genres : genres[g].name = FANTASY

-----------------------------------------------------------------------------
(* The access policy: every editing view and the renewal, called by        *)
(* callers who hold the view's permission and by callers who do not.       *)
PolicyAuthorData == [first_name : {Jane}, last_name : {Austen}]
PolicyBookData == [title : {Throne}, author : {Some(1)}, language : {Some(1)}, genre : {{1}}]
PolicyInstanceData == [book : {Some(1)}, imprint : {Imprint1}, due_back : {NULL},
                       borrower : {NULL, Some("u2")}, status : {"o"}]
PolicyGenreData == [name : {Fantasia}]
PolicyRenewData == {Some(today + 1)}

NextPolicy ==
    \/ \E caller \in AllCallers("catalog.can_create_author"), method \in Methods,
          data \in PolicyAuthorData, id \in AuthorIds : AuthorCreate(caller, method, data, id)
    \/ \E caller \in AllCallers("catalog.can_update_author"), method \in Methods,
          data \in PolicyAuthorData, pk \in AuthorIds : AuthorUpdate(caller, method, pk, data)
    \/ \E caller \in AllCallers("catalog.can_delete_author"), method \in Methods,
          pk \in AuthorIds : AuthorDelete(caller, method, pk)
    \/ \E caller \in AllCallers("catalog.can_create_book"), method \in Methods,
          data \in PolicyBookData, id \in BookIds : BookCreate(caller, method, data, id)
    \/ \E caller \in AllCallers("catalog.can_update_book"), method \in Methods,
          data \in PolicyBookData, pk \in BookIds : BookUpdate(caller, method, pk, data)
    \/ \E caller \in AllCallers("catalog.can_delete_book"), method \in Methods,
          pk \in BookIds : BookDelete(caller, method, pk)
    \/ \E caller \in AllCallers("catalog.can_create_bookinstance"), method \in Methods,
          data \in PolicyInstanceData, id \in InstanceIds : BookInstanceCreate(caller, method, data, id)
    \/ \E caller \in AllCallers("catalog.can_update_bookinstance"), method \in Methods,
          data \in PolicyInstanceData, pk \in InstanceIds : BookInstanceUpdate(caller, method, pk, data)
    \/ \E caller \in AllCallers("catalog.can_delete_bookinstance"), method \in Methods,
          pk \in InstanceIds : BookInstanceDelete(caller, method, pk)
    \/ \E caller \in AllCallers("catalog.can_create_genre"), method \in Methods,
          data \in PolicyGenreData, id \in GenreIds : GenreCreate(caller, method, data, id)
    \/ \E caller \in AllCallers("catalog.can_update_genre"), method \in Methods,
          data \in PolicyGenreData, pk \in GenreIds : GenreUpdate(caller, method, pk, data)
    \/ \E caller \in AllCallers("catalog.can_delete_genre"), method \in Methods,
          pk \in GenreIds : GenreDelete(caller, method, pk)
    \/ \E caller \in AllCallers("catalog.can_create_language"), method \in Methods,
          data \in LanguageData, id \in LanguageIds : LanguageCreate(caller, method, data, id)
    \/ \E caller \in AllCallers("catalog.can_update_language"), method \in Methods,
          data \in LanguageData, pk \in LanguageIds : LanguageUpdate(caller, method, pk, data)
    \/ \E caller \in AllCallers("catalog.can_delete_language"), method \in Methods,
          pk \in LanguageIds : LanguageDelete(caller, method, pk)
    \/ \E caller \in AllCallers("catalog.can_mark_returned"), method \in Methods,
          pk \in InstanceIds, data \in PolicyRenewData : renew_book_librarian(caller, method, pk, data)

SpecPolicy == Init /\ [][NextPolicy]_vars

(* C2: a request for a mutation from a caller who does not hold            *)
(* can_<action>_<entity> of the view's own entity and action               *)
(* (can_mark_returned for the renewal), logged in or not, is refused, and  *)
(* all five tables are the same after it as before, whatever the method,   *)
(* the payload and the id, also an id no row has.                          *)
Refused == store' = store /\ response'.kind \in {"Forbidden", "LoginRedirect"}

UnprivilegedMutation ==
    \E method \in Methods :
        \/ \E c \in NotHolding("catalog.can_create_genre"), d \in PolicyGenreData,
              id \in GenreIds : GenreCreate(c, method, d, id)
        \/ \E c \in NotHolding("catalog.can_update_genre"), d \in PolicyGenreData,
              pk \in GenreIds : GenreUpdate(c, method, pk, d)
        \/ \E c \in NotHolding("catalog.can_delete_genre"),
              pk \in GenreIds : GenreDelete(c, method, pk)
        \/ \E c \in NotHolding("catalog.can_create_language"), d \in LanguageData,
              id \in LanguageIds : LanguageCreate(c, method, d, id)
        \/ \E c \in NotHolding("catalog.can_update_language"), d \in LanguageData,
              pk \in LanguageIds : LanguageUpdate(c, method, pk, d)
        \/ \E c \in NotHolding("catalog.can_delete_language"),
              pk \in LanguageIds : LanguageDelete(c, method, pk)
        \/ \E c \in NotHolding("catalog.can_create_author"), d \in PolicyAuthorData,
              id \in AuthorIds : AuthorCreate(c, method, d, id)
        \/ \E c \in NotHolding("catalog.can_update_author"), d \in PolicyAuthorData,
              pk \in AuthorIds : AuthorUpdate(c, method, pk, d)
        \/ \E c \in NotHolding("catalog.can_delete_author"),
              pk \in AuthorIds : AuthorDelete(c, method, pk)
        \/ \E c \in NotHolding("catalog.can_create_book"), d \in PolicyBookData,
              id \in BookIds : BookCreate(c, method, d, id)
        \/ \E c \in NotHolding("catalog.can_update_book"), d \in PolicyBookData,
              pk \in BookIds : BookUpdate(c, method, pk, d)
        \/ \E c \in NotHolding("catalog.can_delete_book"),
              pk \in BookIds : BookDelete(c, method, pk)
        \/ \E c \in NotHolding("catalog.can_create_bookinstance"), d \in PolicyInstanceData,
              id \in InstanceIds : BookInstanceCreate(c, method, d, id)
        \/ \E c \in NotHolding("catalog.can_update_bookinstance"), d \in PolicyInstanceData,
              pk \in InstanceIds : BookInstanceUpdate(c, method, pk, d)
        \/ \E c \in NotHolding("catalog.can_delete_bookinstance"),
              pk \in InstanceIds : BookInstanceDelete(c, method, pk)
        \/ \E c \in NotHolding("catalog.can_mark_returned"), d \in PolicyRenewData,
              pk \in InstanceIds : renew_book_librarian(c, method, pk, d)

MutationsGated == [][UnprivilegedMutation => Refused]_vars

(* A logged-in caller holding every permission but can_delete_book has     *)
(* asked for a mutation while the book and a copy of it are on record.     *)
MutationsGated_Witness ==
    /\ response.kind = "Forbidden"
    /\ DOMAIN books /= {}
    /\ DOMAIN instances /= {}

-----------------------------------------------------------------------------
(* The loan desk: the copies of one book are created, edited, renewed and  *)
(* deleted, and the book itself may be deleted.                            *)
InitLoan ==
    /\ genres = [i \in {1} |-> [name |-> EpicFantasy]]
    /\ languages = [i \in {1} |-> [name |-> English]]
    /\ authors = [i \in {1} |-> [first_name |-> Jane, last_name |-> Austen]]
    /\ books = [i \in {1} |-> [title |-> GameOfThrones, author |-> Some(1),
                               language |-> Some(1), genre |-> {1}]]
    /\ instances = EmptyTable
    /\ session = NoSession
    /\ today = 1
    /\ nulls_first = FALSE
    /\ inflight = NoRequest
    /\ response = [kind |-> "None"]

LoanInstanceData == [book : {Some(1)}, imprint : {Imprint1},
                     due_back : {NULL},
                     borrower : {NULL, Some("u1")}, status : {"o", "a"}]
LoanRenewData == {Some(today - 1), Some(today), Some(today + 28), Some(today + 29)}

NextLoan ==
    \/ \E data \in LoanInstanceData, id \in CopyIds :
           BookInstanceCreate(Librarian("u1"), "POST", data, id)
    \/ \E data \in LoanInstanceData, pk \in CopyIds :
           BookInstanceUpdate(Librarian("u1"), "POST", pk, data)
    \/ \E pk \in CopyIds : BookInstanceDelete(Librarian("u1"), "POST", pk)
    \/ \E pk \in BookIds : BookDelete(Librarian("u1"), "POST", pk)
    \/ \E caller \in TwoCallers("catalog.can_mark_returned"), method \in Methods,
          pk \in CopyIds, data \in LoanRenewData :
              renew_book_librarian(caller, method, pk, data)

SpecLoan == InitLoan /\ [][NextLoan]_vars

MayRenew == {c \in TwoCallers("catalog.can_mark_returned") :
                c.auth /\ "catalog.can_mark_returned" \in c.perms}

(* C1: a renewal POSTed by a caller holding can_mark_returned for a copy   *)
(* on record, with a date before today or more than 28 days after today,   *)
(* returns the form with its validation error and leaves the copy as it    *)
(* was: due_back, status, borrower, book and imprint.                      *)
OutOfPolicy == {d \in LoanRenewData \ {NULL} : Val(d) < today \/ Val(d) > today + 28}

RenewalRejected ==
    [][\A c \in MayRenew, pk \in DOMAIN instances, d \in OutOfPolicy :
          renew_book_librarian(c, "POST", pk, d) =>
              /\ response'.kind = "RenewInvalid"
              /\ instances'[pk].due_back = instances[pk].due_back
              /\ instances'[pk].status = instances[pk].status
              /\ instances'[pk].borrower = instances[pk].borrower
              /\ instances'[pk].book = instances[pk].book
              /\ instances'[pk].imprint = instances[pk].imprint]_vars

(* A date 29 days ahead was refused for a borrowed copy that is due in 28  *)
(* days.                                                                   *)
RenewalRejected_Witness ==
    /\ response.kind = "RenewInvalid"
    /\ response.renewal_date = Some(today + 29)
    /\ response.pk \in DOMAIN instances
    /\ instances[response.pk].due_back = Some(today + 28)
    /\ instances[response.pk].borrower = Some("u1")

(* C3: a renewal POSTed by a caller holding can_mark_returned for a copy   *)
(* on record, with today <= date <= today + 28, succeeds and changes       *)
(* due_back of that copy to the date and nothing else: not its status,     *)
(* borrower, book or imprint, no other copy and no other table.            *)
InPolicy == {d \in LoanRenewData \ {NULL} : today <= Val(d) /\ Val(d) <= today + 28}

RenewalSetsDueBack ==
    [][\A c \in MayRenew, pk \in DOMAIN instances, d \in InPolicy :
          renew_book_librarian(c, "POST", pk, d) =>
              /\ response'.kind = "Renewed"
              /\ DOMAIN instances' = DOMAIN instances
              /\ instances'[pk] = [book |-> instances[pk].book,
                                   imprint |-> instances[pk].imprint,
                                   due_back |-> d,
                                   borrower |-> instances[pk].borrower,
                                   status |-> instances[pk].status]
              /\ \A i \in DOMAIN instances \ {pk} : instances'[i] = instances[i]
              /\ UNCHANGED <<genres, languages, authors, books>>]_vars

(* An available copy was renewed to the last day the policy allows, with   *)
(* another copy on record.                                                 *)
RenewalSetsDueBack_Witness ==
    /\ response.kind = "Renewed"
    /\ response.pk \in DOMAIN instances
    /\ instances[response.pk].due_back = Some(today + 28)
    /\ instances[response.pk].status = "a"
    /\ DOMAIN instances = CopyIds

-----------------------------------------------------------------------------
(* Due dates: copies are created, edited and deleted, their is_overdue is  *)
(* read, and the days pass.                                                *)
OverdueInstanceData == [book : {Some(1)}, imprint : {Imprint1},
                        due_back : {NULL, Some(today - 1), Some(today), Some(today + 1)},
                        borrower : {NULL}, status : {"o", "a"}]

NextOverdue ==
    \/ \E data \in OverdueInstanceData, id \in CopyIds :
           BookInstanceCreate(Librarian("u1"), "POST", data, id)
    \/ \E data \in OverdueInstanceData, pk \in CopyIds :
           BookInstanceUpdate(Librarian("u1"), "POST", pk, data)
    \/ \E pk \in CopyIds : BookInstanceDelete(Librarian("u1"), "POST", pk)
    \/ \E pk \in CopyIds : BookInstance_is_overdue(pk)
    \/ Tick

SpecOverdue == InitLoan /\ [][NextOverdue]_vars

(* C9: reading is_overdue of a copy returns true when due_back is set and  *)
(* before today, and false when due_back is null, today or later, whatever *)
(* the other fields hold; the read changes nothing.                        *)
OverdueRead ==
    [][\A pk \in DOMAIN instances :
          BookInstance_is_overdue(pk) =>
              LET due == instances[pk].due_back IN
              /\ due = NULL => response'.value = FALSE
              /\ due /= NULL =>
                    /\ due[1] < today => response'.value = TRUE
                    /\ due[1] = today => response'.value = FALSE
                    /\ due[1] > today => response'.value = FALSE
              /\ UNCHANGED <<store, session, today>>]_vars

(* A copy that was due yesterday is read as overdue, next to a copy with no *)
(* due date.                                                               *)
OverdueRead_Witness ==
    /\ response.kind = "is_overdue" /\ response.value = TRUE
    /\ response.pk \in DOMAIN instances
    /\ instances[response.pk].due_back = Some(today - 1)
    /\ \E i \in DOMAIN instances : instances[i].due_back = NULL

-----------------------------------------------------------------------------
(* The listings: copies are created, edited and deleted, and listed by     *)
(* their borrowers and by the librarians, on a database of either NULL     *)
(* order.                                                                  *)
InitList ==
    /\ genres = [i \in {1} |-> [name |-> EpicFantasy]]
    /\ languages = [i \in {1} |-> [name |-> English]]
    /\ authors = [i \in {1} |-> [first_name |-> Jane, last_name |-> Austen]]
    /\ books = [i \in {1} |-> [title |-> GameOfThrones, author |-> Some(1),
                               language |-> Some(1), genre |-> {1}]]
    /\ instances = EmptyTable
    /\ session = NoSession
    /\ today = 1
    /\ nulls_first \in BOOLEAN
    /\ inflight = NoRequest
    /\ response = [kind |-> "None"]

ListInstanceData == [book : {Some(1)}, imprint : {Imprint1},
                     due_back : {NULL, Some(1), Some(2)},
                     borrower : {NULL, Some("u1"), Some("u2")}, status : {"o", "a"}]

NextList ==
    \/ \E data \in ListInstanceData, id \in ListedIds :
           BookInstanceCreate(Librarian("u1"), "POST", data, id)
    \/ \E data \in ListInstanceData, pk \in ListedIds :
           BookInstanceUpdate(Librarian("u1"), "POST", pk, data)
    \/ \E pk \in ListedIds : BookInstanceDelete(Librarian("u1"), "POST", pk)
    \/ \E caller \in {Member("u1"), Member("u2"), Anonymous} :
           LoanedBooksByUserListView(caller)
    \/ \E caller \in AllCallers("catalog.can_mark_returned") :
           BookinstancesAllListView(caller)
    \/ BookInstance_objects_all

SpecList == InitList /\ [][NextList]_vars

(* rows holds each id of ids once and nothing else. *)
ListsExactly(rows, ids) ==
    /\ Len(rows) = Cardinality(ids)
    /\ {rows[n] : n \in DOMAIN rows} = ids

(* rows is non-decreasing in due_back, every row without a due date after  *)
(* every row with one.                                                     *)
AscendingNullsLast(rows) ==
    \A m, n \in DOMAIN rows :
        m < n =>
            LET first == instances[rows[m]].due_back
                second == instances[rows[n]].due_back
            IN  /\ first = NULL => second = NULL
                /\ (first /= NULL /\ second /= NULL) => first[1] <= second[1]

(* C6: "My loaned books" of user u lists exactly the copies with           *)
(* borrower = u and status 'o', by due_back ascending, the copies without  *)
(* a due date last.                                                        *)
MyLoansListed ==
    response.kind = "MyList" =>
        /\ ListsExactly(response.rows,
                        {i \in DOMAIN instances :
                            /\ instances[i].borrower = Some(response.user)
                            /\ instances[i].status = "o"})
        /\ AscendingNullsLast(response.rows)

(* C7: the listing of all copies, by the model's default ordering and by   *)
(* the "All instances" view, holds every copy once, by due_back ascending, *)
(* the copies without a due date last.                                     *)
AllCopiesListed ==
    response.kind \in {"AllList", "DefaultList"} =>
        /\ ListsExactly(response.rows, DOMAIN instances)
        /\ AscendingNullsLast(response.rows)

(* The librarians' list of two copies, the one without a due date second,  *)
(* on a database that sorts NULL first.                                    *)
AllCopiesListed_Witness ==
    /\ response.kind = "AllList"
    /\ nulls_first
    /\ Len(response.rows) = 2
    /\ instances[response.rows[1]].due_back = Some(2)
    /\ instances[response.rows[2]].due_back = NULL

-----------------------------------------------------------------------------
(* Requests served at the same time: a renewal is its two database         *)
(* accesses, and the editing views of other requests may run between them. *)
ConcInstanceData == [book : {Some(1)}, imprint : {Imprint1}, due_back : {NULL, Some(today)},
                     borrower : {NULL}, status : {"o", "a"}]
ConcRenewData == {Some(today + 1), Some(today + 29)}

NextConc ==
    \/ \E data \in ConcInstanceData, id \in CopyIds :
           BookInstanceCreate(Librarian("u1"), "POST", data, id)
    \/ \E data \in ConcInstanceData, pk \in CopyIds :
           BookInstanceUpdate(Librarian("u1"), "POST", pk, data)
    \/ \E pk \in CopyIds : BookInstanceDelete(Librarian("u1"), "POST", pk)
    \/ \E r \in RequestIds, caller \in AllCallers("catalog.can_mark_returned"),
          pk \in CopyIds : renew_get_object(r, caller, pk)
    \/ \E r \in RequestIds, method \in Methods, data \in ConcRenewData :
           renew_process(r, method, data)

SpecConc == InitLoan /\ [][NextConc]_vars

(* C10: the save of a renewal leaves the status of the copy as it is in    *)
(* the table at that moment, also when an update of the copy has changed   *)
(* it since the renewal read the copy, and sets due_back to the renewal's  *)
(* date.                                                                   *)
RenewalKeepsStatus ==
    [][\A r \in RequestIds, d \in ConcRenewData :
          (/\ inflight[r] /= NULL
           /\ Val(inflight[r]).pk \in DOMAIN instances
           /\ RenewBookForm_is_valid(d, today)
           /\ renew_process(r, "POST", d)) =>
              LET pk == Val(inflight[r]).pk IN
              /\ instances'[pk].status = instances[pk].status
              /\ instances'[pk].due_back = d]_vars

-----------------------------------------------------------------------------
(* BookInstance.__str__: '{0} ({1})'.format(self.id, self.book.title).     *)
(* self.book is None when the column book is NULL, and None has no         *)
(* attribute title.                                                        *)
Digits == <<"0", "1", "2", "3", "4", "5", "6", "7", "8", "9">>

(* str() of an id below ten. *)
str(n) == <<Digits[n + 1]>>

format(id, title) == str(id) \o <<" ", "(">> \o title \o <<")">>

(* A template or the admin site prints the instance pk. *)
BookInstance_str(pk) ==
    /\ pk \in DOMAIN instances
    /\ IF instances[pk].book = NULL
       THEN Respond([kind |-> "AttributeError", pk |-> pk])
       ELSE Respond([kind |-> "str", pk |-> pk,
                     value |-> format(pk, books[Val(instances[pk].book)].title)])

(* The shelf: copies of one book are created, edited, deleted and printed, *)
(* and the book itself may be deleted.                                     *)
DisplayInstanceData == [book : {NULL, Some(1)}, imprint : {Imprint1},
                        due_back : {NULL, Some(today)}, borrower : {NULL},
                        status : {"o", "a"}]

NextDisplay ==
    \/ \E data \in DisplayInstanceData, id \in CopyIds :
           BookInstanceCreate(Librarian("u1"), "POST", data, id)
    \/ \E data \in DisplayInstanceData, pk \in CopyIds :
           BookInstanceUpdate(Librarian("u1"), "POST", pk, data)
    \/ \E pk \in CopyIds : BookInstanceDelete(Librarian("u1"), "POST", pk)
    \/ \E pk \in BookIds : BookDelete(Librarian("u1"), "POST", pk)
    \/ \E pk \in CopyIds : BookInstance_str(pk)

SpecDisplay == InitLoan /\ [][NextDisplay]_vars

(* C11: printing a copy produces its id followed by the title of its book  *)
(* in brackets and raises no error, for every copy on record, the copies   *)
(* whose book is null included.                                            *)
DisplayProduced ==
    [][\A pk \in DOMAIN instances :
          BookInstance_str(pk) =>
              /\ response'.kind = "str"
              /\ instances[pk].book /= NULL =>
                    response'.value =
                        <<Digits[pk + 1], " ", "(">>
                            \o books[Val(instances[pk].book)].title \o <<")">>]_vars
====
